---- MODULE Spec2Model ----
(***************************************************************************)
(* Model of the Taiga task-duration store of auto_daily_stand-up_meeting   *)
(* (src/src/database.rs, DatabaseClient over the D1 table taiga_tasks).    *)
(*                                                                         *)
(* Dates.  chrono's NaiveDate is modelled as a day number counted from the *)
(* Monday 2023-11-20 (Epoch).  The TEXT a date is stored as, "YYYY-MM-DD", *)
(* is modelled as the triple <<year, month, day>>: the fields are zero      *)
(* padded to a fixed width, so SQLite's byte-wise TEXT comparison is the   *)
(* lexicographic order of the triples.  Formatting walks the calendar      *)
(* forward month by month from the epoch; parsing validates the fields and sums month     *)
(* lengths.                                                                *)
(*                                                                         *)
(* Table.  taiga_tasks is a bag (multiset) of rows: the columns the code   *)
(* reads and writes, without the rowid.  The UNIQUE constraint on task_key *)
(* is what INSERT checks, not a property of the representation.            *)
(***************************************************************************)
EXTENDS Integers, Sequences, FiniteSets, Bags, TLC

\* ------------------------------------------------------------------ bounds

\* Number of distinct task keys in use.
NumKeys == 2

\* Number of concurrent invocations of the worker (SpecConc).
NumProcs == 2

\* Cleanup keeps tasks seen within this many days (database.rs:182).
RetentionDays == 30

KeyPool == <<"alpha#7", "beta#3", "gamma#1">>

Keys == {KeyPool[i] : i \in 1..NumKeys}

Procs == 1..NumProcs

\* The invocation that runs in the serial specifications.
Main == CHOOSE p \in Procs : \A q \in Procs : p <= q

\* Day numbers "today" is drawn from (Utc::now() at the time of a call):
\*   42 = Mon 2024-01-01, 44 = Wed 2024-01-03, 47 = Sat 2024-01-06,
\*   77 = Mon 2024-02-05 (thirty days after day 47).
\* They are not taken in order: a clock set back gives an earlier today.
Days == {42, 44, 47, 77}

\* The smaller sets the specification with store failures draws from.
FaultDays == {42, 47, 77}

\* The smaller sets the interleaved specification draws from.
ConcKeys == {KeyPool[1]}

ConcDays == {42, 77}

\* ---------------------------------------------------------------- calendar

Epoch == <<2023, 11, 20>>

IsLeapYear(y) == (y % 4 = 0 /\ y % 100 # 0) \/ y % 400 = 0

DaysInMonth(y, m) ==
    IF m = 2 THEN (IF IsLeapYear(y) THEN 29 ELSE 28)
    ELSE IF m \in {4, 6, 9, 11} THEN 30 ELSE 31

\* The calendar date `rest` days after the first of month m of year y.
RECURSIVE CivilFrom(_, _, _)
CivilFrom(y, m, rest) ==
    IF rest < DaysInMonth(y, m) THEN <<y, m, rest + 1>>
    ELSE IF m < 12 THEN CivilFrom(y, m + 1, rest - DaysInMonth(y, m))
    ELSE CivilFrom(y + 1, 1, rest - DaysInMonth(y, m))

\* date.format("%Y-%m-%d").to_string(), for the date with day number n >= 0.
FormatDate(n) == CivilFrom(Epoch[1], Epoch[2], n + Epoch[3] - 1)

\* Days from the first of the epoch's month to the first of month m of year y.
RECURSIVE MonthOffset(_, _)
MonthOffset(y, m) ==
    IF y = Epoch[1] /\ m = Epoch[2] THEN 0
    ELSE IF m = 1 THEN MonthOffset(y - 1, 12) + DaysInMonth(y - 1, 12)
    ELSE MonthOffset(y, m - 1) + DaysInMonth(y, m - 1)

ParseFailed == -1

\* NaiveDate::parse_from_str(s, "%Y-%m-%d"): the day number, or ParseFailed
\* for a triple that is no calendar date (or lies before the epoch).
ParseDate(s) ==
    IF /\ s[2] \in 1..12
       /\ s[3] \in 1..DaysInMonth(s[1], s[2])
       /\ \/ s[1] > Epoch[1]
          \/ s[1] = Epoch[1] /\ s[2] > Epoch[2]
          \/ s[1] = Epoch[1] /\ s[2] = Epoch[2] /\ s[3] >= Epoch[3]
    THEN MonthOffset(s[1], s[2]) + s[3] - Epoch[3]
    ELSE ParseFailed

\* The weekday numbered from Sunday (number_from_sunday): 1 = Sunday .. 7 = Saturday.
NumberFromSunday(n) == ((n + 1) % 7) + 1

\* Weekday::number_from_monday(): 1 = Monday .. 7 = Sunday (the epoch is a Monday).
NumberFromMonday(n) == (n % 7) + 1

\* SQLite's comparison of two TEXT dates: byte-wise, hence field by field.
TextLess(a, b) ==
    \/ a[1] < b[1]
    \/ a[1] = b[1] /\ a[2] < b[2]
    \/ a[1] = b[1] /\ a[2] = b[2] /\ a[3] < b[3]

\* ------------------------------------------------------------------- store

VARIABLES
    tbl,         \* taiga_tasks: the bag of its rows
    pc,          \* per invocation: "idle", or "selected" between the SELECT and the write
    call,        \* per invocation: the task_key and today of the record_taiga_task in flight
    rd,          \* per invocation: what get_task_record returned to the call in flight
    ret,         \* per invocation: the operation it last completed and its result
    sweptDuring, \* per invocation: a cleanup at the call's own day ran since its SELECT
    follows,     \* per invocation: how the record_taiga_task it last completed follows
                 \* the earlier ones: "repeat", "later" or ""
    lastObs,     \* per task_key: day and count of its last successful record_taiga_task
                 \* since its record was last deleted
    calc,        \* the arguments of a calculate_work_days call and, once made, its result
    text,        \* the text a text function is called on and, once called, its results
    batch,       \* the arguments and the result of the process_taiga_urls call just made
    response,    \* the GitHubSearchResponse the last report was generated from
    report,      \* the text generate_standup_report returned last, line by line
    signal,      \* what the holiday API answered in the last run of a handler
    log,         \* the console_log lines of the last run of a handler
    generated    \* the calls of generate_and_send_daily_standup in that run

vars == <<tbl, pc, call, rd, ret, sweptDuring, follows, lastObs,
          calc, text, batch, response, report, signal, log, generated>>

\* The state of the report pipeline, which the store's operations leave alone.
pipeline == <<response, report, signal, log, generated>>

\* The state of the store and of the calls on it.
store == <<tbl, pc, call, rd, ret, sweptDuring, follows, lastObs>>

Row(k, first, last, total) ==
    [task_key |-> k, first_seen_date |-> first, last_seen_date |-> last,
     total_days |-> total]

NoDate == <<0, 0, 0>>

NoRow == Row("", NoDate, NoDate, 0)

\* Result<i32>: Ok(val) or Err(anyhow!(err)).
Ok(v) == [ok |-> TRUE, val |-> v, err |-> ""]

Err(e) == [ok |-> FALSE, val |-> 0, err |-> e]

\* The distinct rows WHERE task_key = k.
Matching(t, k) == {r \in BagToSet(t) : r.task_key = k}

\* The number of rows WHERE task_key = k.
RECURSIVE Copies(_, _)
Copies(t, S) ==
    IF S = {} THEN 0
    ELSE LET r == CHOOSE x \in S : TRUE IN CopiesIn(r, t) + Copies(t, S \ {r})

RowsOf(t, k) == Copies(t, Matching(t, k))

\* get_task_record: SELECT ... WHERE task_key = ?1, first(); a failed query and
\* an empty result are both an Err, told apart only by the message.
GetTaskRecord(t, k, queryFails) ==
    IF queryFails THEN [ok |-> FALSE, rec |-> NoRow, err |-> "query failed"]
    ELSE IF Matching(t, k) = {} THEN [ok |-> FALSE, rec |-> NoRow, err |-> "not found"]
    ELSE [ok |-> TRUE, rec |-> CHOOSE r \in Matching(t, k) : TRUE, err |-> ""]

\* The loop testing the weekday of end instead of current.
RECURSIVE WalkDaysEndWeekday(_, _, _)
WalkDaysEndWeekday(current, end, work_days) ==
    LET counted == IF NumberFromMonday(end) <= 5 THEN work_days + 1 ELSE work_days
    IN  IF current = end THEN counted ELSE WalkDaysEndWeekday(current + 1, end, counted)

\* The while loop of calculate_work_days, from current to end inclusive.
RECURSIVE WalkDays(_, _, _)
WalkDays(current, end, work_days) ==
    LET counted == IF NumberFromMonday(current) <= 5 THEN work_days + 1 ELSE work_days
    IN  IF current = end THEN counted ELSE WalkDays(current + 1, end, counted)

\* calculate_work_days without its floor of one day.
CalculateWorkDaysNoFloor(start_date, end_date) ==
    LET start == ParseDate(start_date)
        end   == ParseDate(end_date)
    IN  IF start = ParseFailed \/ end = ParseFailed THEN Err("bad date")
        ELSE IF end < start THEN Ok(0)
        ELSE Ok(WalkDays(start, end, 0))

\* calculate_work_days counting the range backwards when end < start.
CalculateWorkDaysReversed(start_date, end_date) ==
    LET start == ParseDate(start_date)
        end   == ParseDate(end_date)
    IN  IF start = ParseFailed \/ end = ParseFailed THEN Err("bad date")
        ELSE LET work_days == IF end < start THEN WalkDays(end, start, 0)
                              ELSE WalkDays(start, end, 0)
             IN  Ok(IF work_days > 1 THEN work_days ELSE 1)

\* calculate_work_days(start_date, end_date) on the stored TEXT dates.
CalculateWorkDays(start_date, end_date) ==
    LET start == ParseDate(start_date)
        end   == ParseDate(end_date)
    IN  IF start = ParseFailed \/ end = ParseFailed THEN Err("bad date")
        ELSE IF end < start THEN Ok(1)
        ELSE LET work_days == WalkDays(start, end, 0)
             IN  Ok(IF work_days > 1 THEN work_days ELSE 1)

\* The UPDATE counting the calls: total_days = total_days + 1.
UpdatedCountingCalls(r, k, today, total) ==
    IF r.task_key = k
    THEN [r EXCEPT !.last_seen_date = today, !.total_days = r.total_days + 1]
    ELSE r

\* The UPDATE without its total_days = ?2.
UpdatedKeepTotal(r, k, today, total) ==
    IF r.task_key = k THEN [r EXCEPT !.last_seen_date = today] ELSE r

\* The UPDATE also resetting first_seen_date.
UpdatedResetFirst(r, k, today, total) ==
    IF r.task_key = k
    THEN [r EXCEPT !.first_seen_date = today, !.last_seen_date = today,
                   !.total_days = total]
    ELSE r

\* What UPDATE ... SET last_seen_date = ?1, total_days = ?2 makes of a row
\* WHERE task_key = ?3, and of any other row.
Updated(r, k, today, total) ==
    IF r.task_key = k
    THEN [r EXCEPT !.last_seen_date = today, !.total_days = total]
    ELSE r

\* UPDATE taiga_tasks SET last_seen_date = ?1, total_days = ?2 WHERE task_key = ?3
UpdateRows(t, k, today, total) ==
    LET after == {Updated(r, k, today, total) : r \in BagToSet(t)}
    IN  [x \in after |->
            Copies(t, {r \in BagToSet(t) : Updated(r, k, today, total) = x})]

\* The INSERT with total_days 0 instead of 1.
InsertRowNoCount(t, k, today) ==
    IF Matching(t, k) # {}
    THEN [ok |-> FALSE, tbl |-> t]
    ELSE [ok |-> TRUE, tbl |-> t (+) SetToBag({Row(k, today, today, 0)})]

\* The INSERT into a table whose task_key is not UNIQUE.
InsertRowNoUnique(t, k, today) ==
    [ok |-> TRUE, tbl |-> t (+) SetToBag({Row(k, today, today, 1)})]

\* INSERT INTO taiga_tasks (...) VALUES (?1, ?2, ?3, 1), under task_key TEXT UNIQUE.
InsertRow(t, k, today) ==
    IF Matching(t, k) # {}
    THEN [ok |-> FALSE, tbl |-> t]
    ELSE [ok |-> TRUE, tbl |-> t (+) SetToBag({Row(k, today, today, 1)})]

\* The DELETE with <= in place of <.
DeleteOldInclusive(t, cutoff) ==
    LET kept == {r \in BagToSet(t) : TextLess(cutoff, r.last_seen_date)}
    IN  [r \in kept |-> t[r]]

\* DELETE FROM taiga_tasks WHERE last_seen_date < ?1
DeleteOld(t, cutoff) ==
    LET kept == {r \in BagToSet(t) : ~TextLess(r.last_seen_date, cutoff)}
    IN  [r \in kept |-> t[r]]

\* The cutoff thirty days ahead of today instead of behind it.
CleanupDateAhead(d) == FormatDate(d + RetentionDays)

\* (Utc::now().date_naive() - Duration::days(30)).format("%Y-%m-%d")
CleanupDate(d) == FormatDate(d - RetentionDays)

\* record_taiga_task after its get_task_record has returned `existing`: the
\* UPDATE branch or the INSERT branch, on the table as it is now.
RecordWrite(t, k, today, existing, writeFails) ==
    IF existing.ok
    THEN LET total_days == CalculateWorkDays(existing.rec.first_seen_date, today)
         IN  IF ~total_days.ok
             THEN [tbl |-> t, res |-> Err(total_days.err), path |-> "update"]
             ELSE IF writeFails
             THEN [tbl |-> t, res |-> Err("update failed"), path |-> "update"]
             ELSE [tbl |-> UpdateRows(t, k, today, total_days.val),
                   res |-> Ok(total_days.val), path |-> "update"]
    ELSE LET ins == InsertRow(t, k, today)
         IN  IF writeFails \/ ~ins.ok
             THEN [tbl |-> t, res |-> Err("insert failed"), path |-> "insert"]
             ELSE [tbl |-> ins.tbl, res |-> Ok(1), path |-> "insert"]

\* What an invocation last completed: the operation, its arguments (day is the
\* day number of today), the branch a record_taiga_task took, and the result.
Done(op, k, d, path, res) ==
    [op |-> op, key |-> k, day |-> d, path |-> path,
     ok |-> res.ok, val |-> res.val, err |-> res.err]

\* Nothing completed yet, or a call in flight.
Nothing == Done("none", "", 0, "", Ok(0))

NoCall == [key |-> "", today |-> NoDate, day |-> 0]

NoRead == [ok |-> FALSE, rec |-> NoRow, err |-> ""]

\* No successful record_taiga_task of the key since its record was last deleted.
NoObs == [day |-> -1, val |-> 0]

\* How a record_taiga_task(k) on day d follows the calls before it: it repeats
\* the call the invocation has just completed, or its day is later than the
\* day of the last observation of k.
Following(p, k, d) ==
    IF ret[p].op = "record" /\ ret[p].ok /\ ret[p].key = k /\ ret[p].day = d THEN "repeat"
    ELSE IF lastObs[k] # NoObs /\ lastObs[k].day < d THEN "later"
    ELSE ""

\* The observations obs after a record_taiga_task(k) on day d has returned res.
ObservedIn(obs, k, d, res) ==
    IF res.ok THEN [obs EXCEPT ![k] = [day |-> d, val |-> res.val]] ELSE obs

\* lastObs after a record_taiga_task(k) on day d has returned res.
Observed(k, d, res) == ObservedIn(lastObs, k, d, res)

\* calculate_work_days has not returned: no result yet.
Pending == [ok |-> FALSE, val |-> 0, err |-> "pending"]

NoCalc == [start_day |-> 0, end_day |-> 0, start_date |-> NoDate, end_date |-> NoDate,
           res |-> Pending]

NoResponse == [total_count |-> 0, incomplete_results |-> FALSE, items |-> <<>>]

\* The holiday API has not been asked.
NoSignal == [sent |-> FALSE, status_code |-> 0, json |-> FALSE, statuses |-> <<>>]

\* No result of a text function.
NoKey == [kind |-> "none", key |-> ""]

NoOut == [key |-> NoKey, info |-> "", code |-> "", cli_info |-> "", cli_code |-> ""]

\* No text function is called.
NoText == [fn |-> "", url |-> "", title |-> "", body |-> "", repository_url |-> "",
           done |-> FALSE, out |-> NoOut]

\* A freshly created table and no call made on it.
StoreInit ==
    /\ tbl = EmptyBag
    /\ pc = [p \in Procs |-> "idle"]
    /\ call = [p \in Procs |-> NoCall]
    /\ rd = [p \in Procs |-> NoRead]
    /\ ret = [p \in Procs |-> Nothing]
    /\ sweptDuring = [p \in Procs |-> FALSE]
    /\ follows = [p \in Procs |-> ""]
    /\ lastObs = [k \in Keys |-> NoObs]

\* No handler has run and no report has been generated.
PipelineInit ==
    /\ response = NoResponse
    /\ report = <<>>
    /\ signal = NoSignal
    /\ log = <<>>
    /\ generated = 0

\* No process_taiga_urls call whose result the caller still holds.
NoBatch == [urls |-> <<>>, day |-> 0, faults |-> <<>>, ok |-> FALSE, results |-> <<>>]

Init ==
    /\ StoreInit
    /\ PipelineInit
    /\ calc = NoCalc
    /\ text = NoText
    /\ batch = NoBatch

\* record_taiga_task(task_key) run to completion with today = day d.
RecordTaigaTask(p, k, d, queryFails, writeFails) ==
    /\ pc[p] = "idle"
    /\ LET today    == FormatDate(d)
           existing == GetTaskRecord(tbl, k, queryFails)
           out      == RecordWrite(tbl, k, today, existing, writeFails)
       IN  /\ tbl' = out.tbl
           /\ ret' = [ret EXCEPT ![p] = Done("record", k, d, out.path, out.res)]
           /\ lastObs' = Observed(k, d, out.res)
    /\ sweptDuring' = [sweptDuring EXCEPT ![p] = FALSE]
    /\ follows' = [follows EXCEPT ![p] = Following(p, k, d)]
    /\ UNCHANGED <<pc, call, rd, calc, text, batch, pipeline>>

\* record_taiga_task up to the await of its get_task_record: today is fixed
\* and the SELECT has run.
RecordSelect(p, k, d) ==
    /\ pc[p] = "idle"
    /\ pc' = [pc EXCEPT ![p] = "selected"]
    /\ call' = [call EXCEPT ![p] = [key |-> k, today |-> FormatDate(d), day |-> d]]
    /\ rd' = [rd EXCEPT ![p] = GetTaskRecord(tbl, k, FALSE)]
    /\ ret' = [ret EXCEPT ![p] = Nothing]
    /\ sweptDuring' = [sweptDuring EXCEPT ![p] = FALSE]
    /\ follows' = [follows EXCEPT ![p] = ""]
    /\ UNCHANGED <<tbl, lastObs, calc, text, batch, pipeline>>

\* record_taiga_task from there to its return: the UPDATE or the INSERT runs
\* on the table as the other invocations have left it.
RecordFinish(p) ==
    /\ pc[p] = "selected"
    /\ LET out == RecordWrite(tbl, call[p].key, call[p].today, rd[p], FALSE)
       IN  /\ tbl' = out.tbl
           /\ ret' = [ret EXCEPT ![p] =
                        Done("record", call[p].key, call[p].day, out.path, out.res)]
           /\ lastObs' = Observed(call[p].key, call[p].day, out.res)
    /\ pc' = [pc EXCEPT ![p] = "idle"]
    /\ call' = [call EXCEPT ![p] = NoCall]
    /\ rd' = [rd EXCEPT ![p] = NoRead]
    /\ UNCHANGED <<sweptDuring, follows, calc, text, batch, pipeline>>

\* get_task_days creating the record it does not find.
GetTaskDaysCreating(p, k, queryFails) ==
    /\ pc[p] = "idle"
    /\ LET r == GetTaskRecord(tbl, k, queryFails)
       IN  /\ ret' = [ret EXCEPT ![p] =
                        Done("get", k, 0, "", IF r.ok THEN Ok(r.rec.total_days) ELSE Ok(1))]
           /\ tbl' = IF r.ok THEN tbl ELSE InsertRow(tbl, k, FormatDate(CHOOSE d \in Days : TRUE)).tbl
    /\ follows' = [follows EXCEPT ![p] = ""]
    /\ UNCHANGED <<pc, call, rd, sweptDuring, lastObs, calc, text, batch, pipeline>>

\* get_task_days(task_key)
GetTaskDays(p, k, queryFails) ==
    /\ pc[p] = "idle"
    /\ LET r == GetTaskRecord(tbl, k, queryFails)
       IN  ret' = [ret EXCEPT ![p] =
                    Done("get", k, 0, "", IF r.ok THEN Ok(r.rec.total_days) ELSE Ok(1))]
    /\ follows' = [follows EXCEPT ![p] = ""]
    /\ UNCHANGED <<tbl, pc, call, rd, sweptDuring, lastObs, calc, text, batch, pipeline>>

\* cleanup_old_tasks() with Utc::now() on day d.
CleanupOldTasks(p, d, writeFails) ==
    /\ pc[p] = "idle"
    /\ tbl' = IF writeFails THEN tbl ELSE DeleteOld(tbl, CleanupDate(d))
    /\ ret' = [ret EXCEPT ![p] =
                Done("sweep", "", d, "", IF writeFails THEN Err("cleanup failed") ELSE Ok(0))]
    /\ sweptDuring' =
         [q \in Procs |->
            IF ~writeFails /\ q # p /\ pc[q] = "selected" /\ call[q].day = d
            THEN TRUE ELSE sweptDuring[q]]
    /\ follows' = [follows EXCEPT ![p] = ""]
    /\ lastObs' = [k \in Keys |-> IF Matching(tbl', k) = {} THEN NoObs ELSE lastObs[k]]
    /\ UNCHANGED <<pc, call, rd, calc, text, batch, pipeline>>

\* Serial use of a working store: one invocation, each call run to completion.
Next ==
    \/ \E k \in Keys, d \in Days : RecordTaigaTask(Main, k, d, FALSE, FALSE)
    \/ \E k \in Keys : GetTaskDays(Main, k, FALSE)
    \/ \E d \in Days : CleanupOldTasks(Main, d, FALSE)

Spec == Init /\ [][Next]_vars

\* Serial use of a store whose statements may fail.
NextFault ==
    \/ \E k \in Keys, d \in FaultDays, qf \in BOOLEAN, wf \in BOOLEAN :
          RecordTaigaTask(Main, k, d, qf, wf)
    \/ \E k \in Keys, qf \in BOOLEAN : GetTaskDays(Main, k, qf)
    \/ \E d \in FaultDays, wf \in BOOLEAN : CleanupOldTasks(Main, d, wf)

SpecFault == Init /\ [][NextFault]_vars

\* Overlapping invocations of a working store: a record_taiga_task is two
\* steps, one per statement it awaits; the single-statement calls are one.
NextConc ==
    \/ \E p \in Procs, k \in ConcKeys, d \in ConcDays : RecordSelect(p, k, d)
    \/ \E p \in Procs : RecordFinish(p)
    \/ \E p \in Procs, k \in ConcKeys : GetTaskDays(p, k, FALSE)
    \/ \E p \in Procs, d \in ConcDays : CleanupOldTasks(p, d, FALSE)

SpecConc == Init /\ [][NextConc]_vars

\* -------------------------------------------------------- process_taiga_urls

\* Texts (URLs, titles, bodies) are strings of ASCII characters, so that a
\* byte offset is a character offset; offsets count from 0 as in Rust.

\* Most URLs in a batch.
MaxUrls == 2

Digit == {"0", "1", "2", "3", "4", "5", "6", "7", "8", "9"}

\* The character of s at offset i.
CharAt(s, i) == SubSeq(s, i + 1, i + 1)

\* &s[from..to]
Slice(s, from, to) == SubSeq(s, from + 1, to)

\* s.find(pat): the offset of the first occurrence of pat in s, or -1 for None.
Find(s, pat) ==
    LET at == {i \in 0..(Len(s) - Len(pat)) : Slice(s, i, i + Len(pat)) = pat}
    IN  IF at = {} THEN -1 ELSE CHOOSE i \in at : \A j \in at : i <= j

\* s.chars().all(|c| c.is_ascii_digit()): true of the empty string.
AllAsciiDigits(s) == \A i \in 0..(Len(s) - 1) : CharAt(s, i) \in Digit

\* s.split('/').next(): s up to its first "/".
FirstPiece(s) ==
    LET slash == Find(s, "/")
    IN  IF slash = -1 THEN s ELSE Slice(s, 0, slash)

\* extract_task_key_from_url(url): Some(key), None, or the panic of the slice
\* &url[project_start + 9..task_start] when it starts after its end, which is
\* when "/task/" comes before "/project/" or shares its second slash.
ExtractTaskKeyFromUrl(url) ==
    LET project_start == Find(url, "/project/")
        task_start    == Find(url, "/task/")
    IN  IF project_start = -1 \/ task_start = -1 THEN [kind |-> "none", key |-> ""]
        ELSE IF project_start + 9 > task_start THEN [kind |-> "panic", key |-> ""]
        ELSE LET project_part == Slice(url, project_start + 9, task_start)
                 task_part    == Slice(url, task_start + 6, Len(url))
                 task_id      == FirstPiece(task_part)
             IN  IF AllAsciiDigits(task_id)
                 THEN [kind |-> "some", key |-> project_part \o "#" \o task_id]
                 ELSE [kind |-> "none", key |-> ""]

ProjectPool == <<"alpha", "beta", "gamma">>

TaskIdPool == <<"7", "3", "1">>

\* The Taiga URL of the i-th task.
TaskUrl(i) == "https://tree.taiga.io/project/" \o ProjectPool[i] \o "/task/" \o TaskIdPool[i]

\* A URL that is no Taiga task.
PullUrl == "https://github.com/org/repo/pull/5"

\* The URLs a batch is made of: those of the first two tasks and the other one.
Urls == {TaskUrl(1), TaskUrl(2), PullUrl}

\* extract_task_key_from_url on each of these URLs, computed once.
TaskKeyOf == [url \in Urls |-> ExtractTaskKeyFromUrl(url)]

\* What the store does to one record_taiga_task of a batch: nothing, fail its
\* SELECT, or fail its UPDATE or INSERT.
FaultKinds == {"none", "query", "write"}

\* The loop of process_taiga_urls returning the first Err with the ? operator.
RECURSIVE ProcessUrlsAborting(_, _, _, _, _, _)
ProcessUrlsAborting(t, obs, urls, d, faults, results) ==
    IF urls = <<>> THEN [tbl |-> t, obs |-> obs, res |-> Ok(results)]
    ELSE LET task_key == TaskKeyOf[Head(urls)]
         IN  IF task_key.kind = "panic" THEN [tbl |-> t, obs |-> obs, res |-> Err("panic")]
             ELSE IF task_key.kind = "none"
             THEN ProcessUrlsAborting(t, obs, Tail(urls), d, Tail(faults), results)
             ELSE LET existing == GetTaskRecord(t, task_key.key, Head(faults) = "query")
                      out == RecordWrite(t, task_key.key, FormatDate(d), existing,
                                         Head(faults) = "write")
                  IN  IF ~out.res.ok THEN [tbl |-> t, obs |-> obs, res |-> out.res]
                      ELSE ProcessUrlsAborting(out.tbl, ObservedIn(obs, task_key.key, d, out.res),
                               Tail(urls), d, Tail(faults),
                               Append(results, <<task_key.key, out.res.val>>))

\* The loop of process_taiga_urls over the URLs left, on table t with today =
\* day d: faults says what the store does to the record_taiga_task of each URL.
RECURSIVE ProcessUrls(_, _, _, _, _, _)
ProcessUrls(t, obs, urls, d, faults, results) ==
    IF urls = <<>> THEN [tbl |-> t, obs |-> obs, res |-> Ok(results)]
    ELSE LET task_key == TaskKeyOf[Head(urls)]
         IN  IF task_key.kind = "panic" THEN [tbl |-> t, obs |-> obs, res |-> Err("panic")]
             ELSE IF task_key.kind = "none"
             THEN ProcessUrls(t, obs, Tail(urls), d, Tail(faults), results)
             ELSE LET existing == GetTaskRecord(t, task_key.key, Head(faults) = "query")
                      out == RecordWrite(t, task_key.key, FormatDate(d), existing,
                                         Head(faults) = "write")
                      days == IF out.res.ok THEN out.res.val ELSE 1
                  IN  ProcessUrls(out.tbl, ObservedIn(obs, task_key.key, d, out.res),
                                  Tail(urls), d, Tail(faults),
                                  Append(results, <<task_key.key, days>>))

\* The days a batch is processed on: Mon 2024-01-01 and Sat 2024-01-06.
BatchDays == {42, 47}

\* process_taiga_urls(urls) run to completion with today = day d.
ProcessTaigaUrls(p, urls, d, faults) ==
    /\ pc[p] = "idle"
    /\ batch = NoBatch
    /\ LET out == ProcessUrls(tbl, lastObs, urls, d, faults, <<>>)
       IN  /\ tbl' = out.tbl
           /\ lastObs' = out.obs
           /\ batch' = [urls |-> urls, day |-> d, faults |-> faults, ok |-> out.res.ok,
                        results |-> IF out.res.ok THEN out.res.val ELSE <<>>]
           /\ ret' = [ret EXCEPT ![p] =
                        Done("batch", "", d, "",
                             IF out.res.ok THEN Ok(Len(out.res.val)) ELSE Err(out.res.err))]
    /\ sweptDuring' = [sweptDuring EXCEPT ![p] = FALSE]
    /\ follows' = [follows EXCEPT ![p] = ""]
    /\ UNCHANGED <<pc, call, rd, calc, text, pipeline>>

\* The caller of process_taiga_urls is done with the Vec it was given.
DropResults ==
    /\ batch # NoBatch
    /\ batch' = NoBatch
    /\ UNCHANGED <<store, calc, text, pipeline>>

\* The batches of at most MaxUrls URLs.
UrlBatches == UNION {[1..n -> Urls] : n \in 0..MaxUrls}

\* Batches run one after the other on a store whose statements may fail.
NextBatch ==
    \/ \E urls \in UrlBatches, d \in BatchDays :
          \E faults \in [1..Len(urls) -> FaultKinds] : ProcessTaigaUrls(Main, urls, d, faults)
    \/ DropResults

SpecBatch == Init /\ [][NextBatch]_vars

\* ------------------------------------------------------------------ report
\* generate_standup_report of src/src/github_api.rs, the one the worker calls.
\* The report is the sequence of its lines: what the code pushes up to each
\* "\n".  The fixed texts of the source are Chinese; their lines here are
\* English renderings, named after the source line that pushes them.

Whitespace == {" ", "\n", "\t", "\r"}

DigitChar == <<"0", "1", "2", "3", "4", "5", "6", "7", "8", "9">>

\* format!("{}", n) for an unsigned n.
RECURSIVE FormatNumber(_)
FormatNumber(n) ==
    IF n < 10 THEN DigitChar[n + 1]
    ELSE FormatNumber(n \div 10) \o DigitChar[(n % 10) + 1]

\* The offset of the first character of s at or after from that is in stop,
\* or Len(s) when there is none.
RunEnd(s, from, stop) ==
    LET at == {i \in from..(Len(s) - 1) : CharAt(s, i) \in stop}
    IN  IF at = {} THEN Len(s) ELSE CHOOSE i \in at : \A j \in at : i <= j

\* The offset after the digits of s that start at from.
DigitsEnd(s, from) ==
    LET at == {i \in from..(Len(s) - 1) : CharAt(s, i) \notin Digit}
    IN  IF at = {} THEN Len(s) ELSE CHOOSE i \in at : \A j \in at : i <= j

\* s has pat at offset i.
HasAt(s, i, pat) == i >= 0 /\ i + Len(pat) <= Len(s) /\ Slice(s, i, i + Len(pat)) = pat

\* s.replace(pat, ""): s without the occurrences of pat, taken left to right.
RECURSIVE Remove(_, _)
Remove(s, pat) ==
    LET i == Find(s, pat)
    IN  IF i = -1 THEN s
        ELSE Slice(s, 0, i) \o Remove(Slice(s, i + Len(pat), Len(s)), pat)

\* A match of https://[^\s/]+\.taiga\.io/project/[^/]+/task/(\d+) starting at
\* offset i of s: the offset of its digits, or -1.  The host runs to the first
\* "/" (the pattern allows none before "/project/"), and the project to the next.
TaigaUrlAt(s, i) ==
    IF ~HasAt(s, i, "https://") THEN -1
    ELSE LET host == i + 8
             host_end == RunEnd(s, host, Whitespace \cup {"/"})
         IN  IF ~( /\ host_end - host > 9
                   /\ HasAt(s, host_end - 9, ".taiga.io")
                   /\ HasAt(s, host_end, "/project/") ) THEN -1
             ELSE LET project == host_end + 9
                      project_end == RunEnd(s, project, {"/"})
                  IN  IF /\ project_end > project
                         /\ HasAt(s, project_end, "/task/")
                         /\ project_end + 6 < Len(s)
                         /\ CharAt(s, project_end + 6) \in Digit
                      THEN project_end + 6 ELSE -1

\* extract_taiga_info(title, body)
ExtractTaigaInfo(title, body) ==
    LET combined_text == title \o " " \o body
        urls == {i \in 0..(Len(combined_text) - 1) : TaigaUrlAt(combined_text, i) # -1}
        hashes == {i \in 0..(Len(combined_text) - 2) :
                      /\ CharAt(combined_text, i) = "#"
                      /\ CharAt(combined_text, i + 1) \in Digit}
    IN  IF urls # {}
        THEN LET i == CHOOSE x \in urls : \A y \in urls : x <= y
                 task_id == TaigaUrlAt(combined_text, i)
             IN  "Task #" \o Slice(combined_text, task_id, DigitsEnd(combined_text, task_id))
        ELSE IF hashes # {}
        THEN LET i == CHOOSE x \in hashes : \A y \in hashes : x <= y
             IN  "Task #" \o Slice(combined_text, i + 1, DigitsEnd(combined_text, i + 1))
        ELSE ""

Lower == <<"a", "b", "c", "d", "e", "f", "g", "h", "i", "j", "k", "l", "m",
           "n", "o", "p", "q", "r", "s", "t", "u", "v", "w", "x", "y", "z">>

Upper == <<"A", "B", "C", "D", "E", "F", "G", "H", "I", "J", "K", "L", "M",
           "N", "O", "P", "Q", "R", "S", "T", "U", "V", "W", "X", "Y", "Z">>

\* char::to_uppercase of an ASCII character.
UpperChar(c) ==
    IF \E i \in 1..26 : Lower[i] = c
    THEN Upper[CHOOSE i \in 1..26 : Lower[i] = c]
    ELSE c

\* str::to_uppercase
RECURSIVE ToUppercase(_)
ToUppercase(s) ==
    IF s = "" THEN "" ELSE UpperChar(Head(s)) \o ToUppercase(Tail(s))

\* s.split('/').last(): s after its last "/".
LastPiece(s) ==
    LET at == {i \in 0..(Len(s) - 1) : CharAt(s, i) = "/"}
    IN  IF at = {} THEN s
        ELSE Slice(s, (CHOOSE i \in at : \A j \in at : i >= j) + 1, Len(s))

\* extract_project_code(repo_url)
ExtractProjectCode(repo_url) == ToUppercase(LastPiece(repo_url))

\* str::trim
Trim(s) ==
    LET at == {i \in 0..(Len(s) - 1) : CharAt(s, i) \notin Whitespace}
    IN  IF at = {} THEN ""
        ELSE Slice(s, CHOOSE i \in at : \A j \in at : i <= j,
                      (CHOOSE i \in at : \A j \in at : i >= j) + 1)

\* str::lines: the pieces between the "\n", without an empty last one.
RECURSIVE Lines(_)
Lines(s) ==
    LET i == Find(s, "\n")
    IN  IF s = "" THEN <<>>
        ELSE IF i = -1 THEN <<s>>
        ELSE <<Slice(s, 0, i)>> \o Lines(Slice(s, i + 1, Len(s)))

\* Vec::join(" ")
RECURSIVE JoinSpace(_)
JoinSpace(parts) ==
    IF parts = <<>> THEN ""
    ELSE IF Len(parts) = 1 THEN parts[1]
    ELSE parts[1] \o " " \o JoinSpace(Tail(parts))

\* The characters extract_work_summary keeps of a body.
SummaryChars == 200

\* extract_work_summary(body)
ExtractWorkSummary(body) ==
    IF body = "" THEN ""
    ELSE LET summary == IF Len(body) > SummaryChars
                        THEN Slice(body, 0, SummaryChars) \o "..."
                        ELSE body
             trimmed == [i \in 1..Len(Lines(summary)) |-> Trim(Lines(summary)[i])]
         IN  JoinSpace(SelectSeq(trimmed, LAMBDA line : line # ""))

\* The lines of the block of the PR at position index of the items.
PrBlock(index, pr) ==
    LET body_content == IF pr.body.some THEN pr.body.val ELSE ""
        taiga_info == ExtractTaigaInfo(pr.title, body_content)
        project_code == ExtractProjectCode(pr.repository_url)
        work_summary == ExtractWorkSummary(body_content)
    IN  <<"### PR #" \o FormatNumber(index),
          "- title: " \o pr.title,
          "- repository: " \o Remove(pr.repository_url, "https://api.github.com/repos/"),
          "- state: " \o (IF pr.merged_at.some THEN "merged"
                          ELSE IF pr.state = "closed" THEN "closed"
                          ELSE "in progress")>>
        \o (IF taiga_info # "" THEN <<"- taiga: " \o taiga_info>> ELSE <<>>)
        \o (IF project_code # "" THEN <<"- project code: " \o project_code>> ELSE <<>>)
        \o (IF work_summary # "" THEN <<"- work: " \o work_summary>> ELSE <<>>)
        \o <<"- link: " \o pr.html_url, "">>

\* The for loop leaving out a PR whose task an earlier item already named.
RECURSIVE PrBlocksMerging(_, _)
PrBlocksMerging(items, index) ==
    LET info(i) == ExtractTaigaInfo(items[i].title,
                                    IF items[i].body.some THEN items[i].body.val ELSE "")
    IN  IF index > Len(items) THEN <<>>
        ELSE IF \E earlier \in 1..(index - 1) :
                    info(earlier) # "" /\ info(earlier) = info(index)
        THEN PrBlocksMerging(items, index + 1)
        ELSE PrBlock(index, items[index]) \o PrBlocksMerging(items, index + 1)

\* The for loop of generate_standup_report over the items from position index on.
RECURSIVE PrBlocks(_, _)
PrBlocks(items, index) ==
    IF index > Len(items) THEN <<>>
    ELSE PrBlock(index, items[index]) \o PrBlocks(items, index + 1)

\* generate_ai_prompt(): the fixed text, as one line.
AiPrompt == "<AI prompt>"

\* generate_standup_report(response)
GenerateStandupReport(resp) ==
    <<"=== daily stand-up report data ===", "",
      "## GitHub PR data summary",
      "- PRs created today: " \o FormatNumber(resp.total_count),
      "- completeness: " \o (IF resp.incomplete_results THEN "partial" ELSE "complete"),
      "">>
    \o (IF resp.items = <<>>
        THEN <<"No PR was created today, maybe no code work was done.", "">>
        ELSE <<"## PR details", "">> \o PrBlocks(resp.items, 1))
    \o <<"## AI guide", AiPrompt>>

\* ---------------------------------------------------------------- handlers
\* scheduled_handler, is_working_day and generate_and_send_daily_standup of
\* src/src/lib.rs.  A console_log line is its message in English, after the
\* colon what the source formats into it.

\* Most pull requests in one page of search results.
MaxPRs == 2

Some(v) == [some |-> TRUE, val |-> v]

None == [some |-> FALSE, val |-> ""]

\* A body of more than 200 characters that starts with a Taiga URL.
LongBody ==
    LET ten == " more text"
        fifty == ten \o ten \o ten \o ten \o ten
    IN  "Follow-up of " \o TaskUrl(1) \o "\n" \o fifty \o fifty \o fifty \o fifty

\* The pull requests the search results are made of: a merged one that names
\* a Taiga task in its body, an open one with no body and a #number in its
\* title, and a closed one that names the same Taiga task.
PrPool ==
    <<[title |-> "Refactor login", body |-> Some("  " \o TaskUrl(1) \o " \n\n done  \n"),
       repository_url |-> "https://api.github.com/repos/acme/ktv_flutter",
       html_url |-> "https://github.com/acme/ktv_flutter/pull/1",
       state |-> "closed", merged_at |-> Some("2024-01-03T08:00:00Z")],
      [title |-> "Fix crash #12", body |-> None,
       repository_url |-> "https://api.github.com/repos/acme/soraka",
       html_url |-> "https://github.com/acme/soraka/pull/2",
       state |-> "open", merged_at |-> None],
      [title |-> "Login tests", body |-> Some(LongBody),
       repository_url |-> "https://api.github.com/repos/acme/ktv_flutter",
       html_url |-> "https://github.com/acme/ktv_flutter/pull/3",
       state |-> "closed", merged_at |-> None]>>

Prs == {PrPool[i] : i \in 1..Len(PrPool)}

\* What get_today_prs can return Ok: a page of at most MaxPRs items, and a
\* total_count that is the number of matches, more than the items when the
\* page is full.
Responses ==
    {[total_count |-> n, incomplete_results |-> inc, items |-> items] :
        <<items, n, inc>> \in
            {x \in (UNION {[1..len -> Prs] : len \in 0..MaxPRs})
                      \X (0..(MaxPRs + 1)) \X BOOLEAN :
                \/ x[2] = Len(x[1])
                \/ Len(x[1]) = MaxPRs /\ x[2] = MaxPRs + 1}}

\* generate_standup_report on each of the search results, computed once.
ReportOf == [resp \in Responses |-> GenerateStandupReport(resp)]

\* What the holiday API can answer: no answer, a status code with a body that
\* is a JSON array or not, and for each element of the array the JSON text of
\* its status field.
Signals ==
    {[sent |-> FALSE, status_code |-> 0, json |-> FALSE, statuses |-> <<>>],
     [sent |-> TRUE, status_code |-> 500, json |-> TRUE, statuses |-> <<"0">>],
     [sent |-> TRUE, status_code |-> 200, json |-> FALSE, statuses |-> <<>>],
     [sent |-> TRUE, status_code |-> 200, json |-> TRUE, statuses |-> <<>>]}
    \cup {[sent |-> TRUE, status_code |-> 200, json |-> TRUE, statuses |-> <<token>>] :
            token \in {"0", "1", "2", "3", "7", "-1", "\"3\"", "null"}}

\* The value of a string of digits.
RECURSIVE DigitsValue(_, _)
DigitsValue(s, acc) ==
    IF s = "" THEN acc
    ELSE DigitsValue(Tail(s), 10 * acc + (CHOOSE v \in 0..9 : DigitChar[v + 1] = Head(s)))

\* serde_json reading a JSON value as an i32: the number, or a failure for what
\* is no integer of 32 bits.
ParseI32(token) ==
    LET negative == token # "" /\ Head(token) = "-"
        digits == IF negative THEN Tail(token) ELSE token
    IN  IF /\ digits # "" /\ Len(digits) <= 10 /\ AllAsciiDigits(digits)
           /\ (Len(digits) = 1 \/ Head(digits) # "0")
           /\ DigitsValue(digits, 0) - (IF negative THEN 1 ELSE 0) <= 2147483647
        THEN [ok |-> TRUE, val |-> IF negative THEN 0 - DigitsValue(digits, 0)
                                   ELSE DigitsValue(digits, 0)]
        ELSE [ok |-> FALSE, val |-> 0]

\* is_working_day(): Ok(val) or Err, and the lines it logs.
IsWorkingDay(sig) ==
    LET asked == <<"198 querying the working-day status">>
    IN  IF ~sig.sent THEN [ok |-> FALSE, val |-> FALSE, log |-> asked]
        ELSE IF sig.status_code # 200 THEN [ok |-> FALSE, val |-> FALSE, log |-> asked]
        ELSE LET raw == asked \o <<"213 holiday API raw response">>
                 parsed == [i \in 1..Len(sig.statuses) |-> ParseI32(sig.statuses[i])]
             IN  IF ~sig.json \/ \E i \in 1..Len(parsed) : ~parsed[i].ok
                 THEN [ok |-> FALSE, val |-> FALSE, log |-> raw]
                 ELSE IF parsed = <<>> THEN [ok |-> FALSE, val |-> FALSE, log |-> raw]
                 ELSE LET status == parsed[1].val
                          got == raw \o <<"223 holiday API status: " \o sig.statuses[1]>>
                      IN  IF status = 0
                          THEN [ok |-> TRUE, val |-> TRUE,
                                log |-> got \o <<"229 ordinary working day">>]
                          ELSE IF status = 1
                          THEN [ok |-> TRUE, val |-> FALSE,
                                log |-> got \o <<"233 weekend">>]
                          ELSE IF status = 2
                          THEN [ok |-> TRUE, val |-> TRUE,
                                log |-> got \o <<"237 compensatory working day">>]
                          ELSE IF status = 3
                          THEN [ok |-> TRUE, val |-> FALSE,
                                log |-> got \o <<"241 public holiday">>]
                          ELSE [ok |-> TRUE, val |-> FALSE,
                                log |-> got \o <<"245 WARN unknown status: " \o sig.statuses[1]>>]

\* The environments a handler runs in: each variable is set, empty or missing.
Envs ==
    {[GITHUB_TOKEN |-> Some("ghp"), OPENAI_API_KEY |-> Some("sk"), FEISHU_WEBHOOK_URL |-> Some("hook")],
     [GITHUB_TOKEN |-> Some("ghp"), OPENAI_API_KEY |-> Some(""), FEISHU_WEBHOOK_URL |-> Some("hook")],
     [GITHUB_TOKEN |-> Some(""), OPENAI_API_KEY |-> Some("sk"), FEISHU_WEBHOOK_URL |-> Some("hook")],
     [GITHUB_TOKEN |-> Some("ghp"), OPENAI_API_KEY |-> Some("sk"), FEISHU_WEBHOOK_URL |-> None]}

\* What the collaborators of one generate_and_send_daily_standup do: the
\* environment, the search results or the failure of get_today_prs, and
\* whether the AI client and the Feishu webhook succeed.
Runs ==
    {[env |-> env, fetched |-> fetched, ai_ok |-> ai, feishu_ok |-> feishu] :
        env \in Envs,
        fetched \in {[ok |-> TRUE, resp |-> r] : r \in Responses}
                      \cup {[ok |-> FALSE, resp |-> NoResponse]},
        ai \in BOOLEAN, feishu \in BOOLEAN}

\* generate_and_send_daily_standup(env): Ok or Err, the lines it logs, and
\* the search results and the report when it got that far.
GenerateAndSendDailyStandup(run) ==
    LET failed(lines) == [ok |-> FALSE, log |-> lines, response |-> NoResponse, report |-> <<>>]
        env == run.env
    IN  IF ~env.GITHUB_TOKEN.some \/ ~env.OPENAI_API_KEY.some \/ ~env.FEISHU_WEBHOOK_URL.some
        THEN failed(<<>>)
        ELSE IF env.GITHUB_TOKEN.val = "" \/ env.FEISHU_WEBHOOK_URL.val = ""
        THEN failed(<<>>)
        ELSE IF ~run.fetched.ok THEN failed(<<"132 fetching the PRs of today">>)
        ELSE LET pr_response == run.fetched.resp
                 standup_data == ReportOf[pr_response]
                 fetched == <<"132 fetching the PRs of today",
                              "141 fetched PRs: " \o FormatNumber(pr_response.total_count)>>
                 written ==
                     IF env.OPENAI_API_KEY.val # ""
                     THEN <<"147 generating the report with AI">> \o
                          (IF run.ai_ok THEN <<"155 AI report generated">>
                           ELSE <<"159 WARN AI failed, using the raw data">>)
                     ELSE <<"164 WARN no AI configured, using the raw data">>
                 sending == fetched \o written \o <<"169 sending the report to Feishu">>
             IN  IF ~run.feishu_ok
                 THEN [ok |-> FALSE, log |-> sending,
                       response |-> pr_response, report |-> standup_data]
                 ELSE [ok |-> TRUE, log |-> sending \o <<"175 report sent to Feishu">>,
                       response |-> pr_response, report |-> standup_data]

\* scheduled_handler treating a failed check like a working day.
ScheduledRunSilent(sig, run) ==
    LET working == IsWorkingDay(sig)
        out == GenerateAndSendDailyStandup(run)
        outcome == IF out.ok THEN <<"report generated and sent">>
                   ELSE <<"ERROR report generation failed">>
        triggered == <<"30 triggered: checking the working day">> \o working.log
    IN  IF working.ok /\ ~working.val
        THEN [generated |-> 0, response |-> NoResponse, report |-> <<>>,
              log |-> triggered \o <<"46 not a working day: skipping the report">>]
        ELSE [generated |-> 1, response |-> out.response, report |-> out.report,
              log |-> triggered \o <<"35 working day: generating the report">>
                      \o out.log \o outcome]

\* What one run of scheduled_handler logs and calls, given the answer of
\* the holiday API and, when it generates, what the collaborators do.
ScheduledRun(sig, run) ==
    LET working == IsWorkingDay(sig)
        out == GenerateAndSendDailyStandup(run)
        outcome == IF out.ok THEN <<"report generated and sent">>
                   ELSE <<"ERROR report generation failed">>
        triggered == <<"30 triggered: checking the working day">> \o working.log
    IN  IF working.ok /\ working.val
        THEN [generated |-> 1, response |-> out.response, report |-> out.report,
              log |-> triggered \o <<"35 working day: generating the report">>
                      \o out.log \o outcome]
        ELSE IF working.ok
        THEN [generated |-> 0, response |-> NoResponse, report |-> <<>>,
              log |-> triggered \o <<"46 not a working day: skipping the report">>]
        ELSE [generated |-> 1, response |-> out.response, report |-> out.report,
              log |-> triggered
                      \o <<"49 WARN working-day check failed: generating the report anyway">>
                      \o out.log \o outcome]

\* Whatever the collaborators would do: the run that stands for a handler
\* that does not generate.
NoRun == CHOOSE run \in Runs : TRUE

\* scheduled_handler(event, env, ctx) run to completion.
ScheduledHandler(sig, run) ==
    /\ log = <<>>
    /\ \E out \in {ScheduledRun(sig, run)} :
           /\ out.generated = 0 => run = NoRun
           /\ signal' = sig
           /\ log' = out.log
           /\ generated' = out.generated
           /\ response' = out.response
           /\ report' = out.report
    /\ UNCHANGED <<store, calc, text, batch>>

\* The run is over: the next event starts with an empty log.
HandlerReturns ==
    /\ log # <<>>
    /\ signal' = NoSignal
    /\ log' = <<>>
    /\ generated' = 0
    /\ response' = NoResponse
    /\ report' = <<>>
    /\ UNCHANGED <<store, calc, text, batch>>

NextGate ==
    \/ \E sig \in Signals, run \in Runs : ScheduledHandler(sig, run)
    \/ HandlerReturns

SpecGate == Init /\ [][NextGate]_vars

\* ------------------------------------------------- extract_task_key_from_url

\* Most pieces of a URL extract_task_key_from_url is called on.
MaxUrlPieces == 4

\* What the URLs are made of: the two markers of the code, a project slug,
\* a task number and a slash.
UrlPieces == <<"/project/", "/task/", "zen-soraka", "41", "/">>

\* The pieces put one after the other.
RECURSIVE Concat(_)
Concat(pieces) == IF pieces = <<>> THEN "" ELSE Head(pieces) \o Concat(Tail(pieces))

\* The URLs: with or without scheme and host, any pieces in any order.
KeyUrls ==
    {host \o Concat(pieces) :
        host \in {"", "https://tree.taiga.io"},
        pieces \in UNION {[1..n -> {UrlPieces[i] : i \in 1..Len(UrlPieces)}] :
                             n \in 0..MaxUrlPieces}}

\* A call of extract_task_key_from_url about to be made.
InitKey ==
    /\ StoreInit
    /\ PipelineInit
    /\ calc = NoCalc
    /\ batch = NoBatch
    /\ \E url \in KeyUrls : text = [NoText EXCEPT !.fn = "key", !.url = url]

\* extract_task_key_from_url(url) returns or panics.
ExtractTaskKeyFromUrlCall ==
    /\ text.fn = "key" /\ ~text.done
    /\ text' = [text EXCEPT !.done = TRUE, !.out.key = ExtractTaskKeyFromUrl(text.url)]
    /\ UNCHANGED <<store, calc, batch, pipeline>>

NextKey == ExtractTaskKeyFromUrlCall

SpecKey == InitKey /\ [][NextKey]_vars

\* ------------------------------------------------------- task references
\* What a PR block says of the task and the project of a pull request, in
\* the report of the worker (src/src/github_api.rs) and in the report of the
\* command-line tool (src/src/api.rs).

\* extract_taiga_info(title, body) of api.rs
CliExtractTaigaInfo(title, body) ==
    LET content == title \o " " \o body
        start == Find(content, "https://tree.taiga.io/")
        hashes == {i \in 0..(Len(content) - 2) :
                      /\ CharAt(content, i) = "#"
                      /\ CharAt(content, i + 1) \in Digit}
    IN  IF start # -1
        THEN Slice(content, start, RunEnd(content, start, Whitespace))
        ELSE IF hashes # {}
        THEN LET i == CHOOSE x \in hashes : \A y \in hashes : x <= y
             IN  "#" \o Slice(content, i + 1, DigitsEnd(content, i + 1))
        ELSE ""

\* extract_project_code(repo_url) of api.rs
CliExtractProjectCode(repo_url) ==
    LastPiece(Remove(repo_url, "https://api.github.com/repos/"))

\* extract_project_code_from_taiga(taiga_url) of api.rs
CliExtractProjectCodeFromTaiga(taiga_url) ==
    LET start == Find(taiga_url, "https://tree.taiga.io/project/")
    IN  IF start = -1 THEN ""
        ELSE FirstPiece(Slice(taiga_url, start + Len("https://tree.taiga.io/project/"),
                              Len(taiga_url)))

\* The project code generate_standup_report of api.rs puts in the block of a
\* pull request with this taiga_info and repository_url.
CliProjectCode(taiga_info, repository_url) ==
    IF taiga_info # "" /\ HasAt(taiga_info, 0, "https://tree.taiga.io/")
    THEN CliExtractProjectCodeFromTaiga(taiga_info)
    ELSE CliExtractProjectCode(repository_url)

\* Most words in the title of a pull request.
MaxWords == 2

\* The words of a title: a plain word, a #number, the URL of a Taiga task and
\* the URL of a Taiga user story.
Words == <<"fix", "#12", "https://tree.taiga.io/project/zen-soraka/task/41",
           "https://tree.taiga.io/project/zen-soraka/us/9">>

\* words.join(" ")
Titles ==
    {JoinSpace(words) :
        words \in UNION {[1..n -> {Words[i] : i \in 1..Len(Words)}] : n \in 0..MaxWords}}

\* The bodies: none (the worker passes ""), a #number, the URL of another task.
Bodies == {"", "closes #7", "see https://tree.taiga.io/project/other-proj/task/5\nthanks"}

Repositories == {"https://api.github.com/repos/acme/Soraka-App",
                 "https://api.github.com/repos/acme/ktv_flutter"}

\* A pull request whose block is about to be written.
InitRef ==
    /\ StoreInit
    /\ PipelineInit
    /\ calc = NoCalc
    /\ batch = NoBatch
    /\ \E title \in Titles, body \in Bodies, repository_url \in Repositories :
          text = [NoText EXCEPT !.fn = "pr", !.title = title, !.body = body,
                                !.repository_url = repository_url]

\* The task and the project code of the block, in generate_standup_report of
\* github_api.rs.
WorkerBlock ==
    /\ text.fn \in {"pr", "pr cli"}
    /\ text' = [text EXCEPT !.fn = IF text.fn = "pr" THEN "pr worker" ELSE "pr both",
                            !.done = (text.fn = "pr cli"),
                            !.out.info = ExtractTaigaInfo(text.title, text.body),
                            !.out.code = ExtractProjectCode(text.repository_url)]
    /\ UNCHANGED <<store, calc, batch, pipeline>>

\* The task and the project code of the block, in generate_standup_report of
\* api.rs.
CliBlock ==
    /\ text.fn \in {"pr", "pr worker"}
    /\ \E taiga_info \in {CliExtractTaigaInfo(text.title, text.body)} :
          text' = [text EXCEPT !.fn = IF text.fn = "pr" THEN "pr cli" ELSE "pr both",
                               !.done = (text.fn = "pr worker"),
                               !.out.cli_info = taiga_info,
                               !.out.cli_code = CliProjectCode(taiga_info, text.repository_url)]
    /\ UNCHANGED <<store, calc, batch, pipeline>>

NextRef == WorkerBlock \/ CliBlock

SpecRef == InitRef /\ [][NextRef]_vars

\* ------------------------------------------------------- calculate_work_days

\* The dates calculate_work_days is called on: Mon 2024-01-01 and the CalcSpan
\* days after it.
CalcSpan == 13

CalcDays == ParseDate(<<2024, 1, 1>>) .. (ParseDate(<<2024, 1, 1>>) + CalcSpan)

\* A call about to be made, on the TEXT of two dates.
InitCalc ==
    /\ StoreInit
    /\ PipelineInit
    /\ batch = NoBatch
    /\ text = NoText
    /\ \E a \in CalcDays, b \in CalcDays :
          calc = [start_day |-> a, end_day |-> b,
                  start_date |-> FormatDate(a), end_date |-> FormatDate(b),
                  res |-> Pending]

\* calculate_work_days(start_date, end_date) returns.
CalculateWorkDaysCall ==
    /\ calc.res = Pending
    /\ calc' = [calc EXCEPT !.res = CalculateWorkDays(calc.start_date, calc.end_date)]
    /\ UNCHANGED <<store, text, batch, pipeline>>

NextCalc == CalculateWorkDaysCall

SpecCalc == InitCalc /\ [][NextCalc]_vars

\* ------------------------------------------------------------------ claims

\* The step is invocation p returning from the operation op on key k and day d.
Returns(p, op, k, d) ==
    ret'[p].op = op /\ ret'[p].key = k /\ ret'[p].day = d

\* The row of key k, when there is one.
TheRow(t, k) == CHOOSE r \in Matching(t, k) : TRUE

\* Every row's total_days is calculate_work_days of its two dates.
TotalsMatchDates ==
    \A r \in BagToSet(tbl) :
        r.total_days = CalculateWorkDays(r.first_seen_date, r.last_seen_date).val

\* What a record_taiga_task(k) on day d does when tbl holds a row for k.
UpdatesExisting(k, d) ==
    LET old == TheRow(tbl, k)
        new == TheRow(tbl', k)
        days == CalculateWorkDays(old.first_seen_date, FormatDate(d)).val
    IN  /\ RowsOf(tbl', k) = 1
        /\ new.last_seen_date = FormatDate(d)
        /\ new.first_seen_date = old.first_seen_date
        /\ new.total_days = days
        /\ ret'[Main].ok /\ ret'[Main].val = days
        \* first seen Mon 2024-01-01: Mon 1, Wed 2024-01-03 3, Sat 2024-01-06 5
        /\ old.first_seen_date = <<2024, 1, 1>> /\ d = 42 => ret'[Main].val = 1
        /\ old.first_seen_date = <<2024, 1, 1>> /\ d = 44 => ret'[Main].val = 3
        /\ old.first_seen_date = <<2024, 1, 1>> /\ d = 47 => ret'[Main].val = 5

\* C1: a record_taiga_task(k) with today = d on an existing record sets its
\* last_seen_date to d and its total_days to calculate_work_days(first_seen_date, d),
\* returns that count, and so every stored total_days is the count of its own
\* two dates (first seen Mon 2024-01-01: 3 on Wed 2024-01-03, 5 on Sat 2024-01-06).
C1_RecordUpdatesExisting ==
    /\ []TotalsMatchDates
    /\ [][\A k \in Keys, d \in Days :
            ( /\ Returns(Main, "record", k, d) /\ Matching(tbl, k) # {}
              /\ RecordTaigaTask(Main, k, d, FALSE, FALSE) )
                => UpdatesExisting(k, d)]_vars

C1_Witness ==
    /\ ret[Main] = Done("record", KeyPool[1], 47, "update", Ok(5))
    /\ BagIn(Row(KeyPool[1], <<2024, 1, 1>>, <<2024, 1, 6>>, 5), tbl)

\* tbl' is tbl with one more copy of row r and nothing else changed.
AddsExactly(r) ==
    \A x \in BagToSet(tbl) \cup BagToSet(tbl') \cup {r} :
        CopiesIn(x, tbl') = CopiesIn(x, tbl) + (IF x = r THEN 1 ELSE 0)

\* C2: a record_taiga_task(k) with today = d on a store with no record of k
\* creates exactly one record of k, with both dates d and total_days 1, returns 1
\* and leaves every other record as it was.
C2_RecordCreatesNew ==
    [][\A k \in Keys, d \in Days :
          ( /\ Returns(Main, "record", k, d) /\ Matching(tbl, k) = {}
            /\ RecordTaigaTask(Main, k, d, FALSE, FALSE) )
              => /\ AddsExactly(Row(k, FormatDate(d), FormatDate(d), 1))
                 /\ RowsOf(tbl', k) = 1
                 /\ ret'[Main].ok /\ ret'[Main].val = 1]_vars

C2_Witness ==
    /\ ret[Main] = Done("record", KeyPool[2], 47, "insert", Ok(1))
    /\ BagIn(Row(KeyPool[2], <<2024, 1, 6>>, <<2024, 1, 6>>, 1), tbl)
    /\ BagIn(Row(KeyPool[1], <<2024, 1, 1>>, <<2024, 1, 3>>, 3), tbl)

\* C3: record_taiga_task is atomic per key: whenever a call returns, with the
\* store working, it has succeeded, and the record of its key carries the
\* last_seen_date and the count that call wrote.
C3_AtomicPerKey ==
    [][\A p \in Procs :
          pc[p] = "selected" /\ RecordFinish(p)
              => /\ ret'[p].ok
                 /\ \E r \in Matching(tbl', call[p].key) :
                        /\ r.last_seen_date = call[p].today
                        /\ r.total_days = ret'[p].val]_vars

\* C4: there is never more than one record of a task_key.
C4_OneRecordPerKey == \A k \in Keys : RowsOf(tbl, k) <= 1

\* Two overlapping calls both found no record; the second INSERT was refused.
C4_Witness ==
    \E p \in Procs, q \in Procs :
        /\ p # q
        /\ ret[p].op = "record" /\ ret[p].path = "insert" /\ ret[p].ok
        /\ ret[q].op = "record" /\ ret[q].path = "insert" /\ ~ret[q].ok
        /\ ret[p].key = ret[q].key
        /\ RowsOf(tbl, ret[p].key) = 1

\* C5: every stored total_days is at least 1, and so is every count returned
\* by record_taiga_task or get_task_days.
C5_AtLeastOneDay ==
    /\ \A r \in BagToSet(tbl) : r.total_days >= 1
    /\ \A p \in Procs : ret[p].op \in {"record", "get"} /\ ret[p].ok => ret[p].val >= 1

\* A record first seen on Sat 2024-01-06 and seen again on the earlier Mon 2024-01-01.
C5_Witness ==
    /\ ret[Main] = Done("record", KeyPool[1], 42, "update", Ok(1))
    /\ BagIn(Row(KeyPool[1], <<2024, 1, 6>>, <<2024, 1, 1>>, 1), tbl)

\* C6: no step changes the first_seen_date of a record that is there before
\* and after it.
C6_FirstSeenImmutable ==
    [][\A k \in Keys :
          Matching(tbl, k) # {} /\ Matching(tbl', k) # {}
              => {r.first_seen_date : r \in Matching(tbl', k)}
                    = {r.first_seen_date : r \in Matching(tbl, k)}]_vars

\* A record first seen on Wed 2024-01-03 was updated on the earlier Mon 2024-01-01.
C6_Witness ==
    /\ ret[Main].op = "record" /\ ret[Main].path = "update" /\ ret[Main].ok
    /\ ret[Main].day = 42
    /\ TheRow(tbl, ret[Main].key).first_seen_date = <<2024, 1, 3>>
    /\ TheRow(tbl, ret[Main].key).last_seen_date = <<2024, 1, 1>>

\* C7: when the SELECT fails, get_task_days and record_taiga_task return an
\* error: get_task_days does not return 1 and record_taiga_task does not go on
\* to its INSERT.
C7_FailuresPropagate ==
    [][/\ \A k \in Keys :
             Returns(Main, "get", k, 0) /\ GetTaskDays(Main, k, TRUE)
                 => ~ret'[Main].ok /\ ret'[Main].val # 1
       /\ \A k \in Keys, d \in FaultDays, wf \in BOOLEAN :
             Returns(Main, "record", k, d) /\ RecordTaigaTask(Main, k, d, TRUE, wf)
                 => ~ret'[Main].ok /\ ret'[Main].path # "insert"]_vars

\* C8: get_task_days(k) returns the stored total_days when k has a record and
\* 1 when it has none, never an error, and leaves the table as it was.
C8_GetDurationReadOnly ==
    [][\A k \in Keys :
          Returns(Main, "get", k, 0) /\ GetTaskDays(Main, k, FALSE)
              => /\ tbl' = tbl
                 /\ ret'[Main].ok
                 /\ ret'[Main].val =
                        IF Matching(tbl, k) = {} THEN 1 ELSE TheRow(tbl, k).total_days]_vars

\* A lookup of a missing key returned 1 beside a stored count of 5 for another.
C8_Witness ==
    /\ ret[Main] = Done("get", KeyPool[2], 0, "", Ok(1))
    /\ Matching(tbl, KeyPool[2]) = {}
    /\ BagIn(Row(KeyPool[1], <<2024, 1, 1>>, <<2024, 1, 6>>, 5), tbl)

\* C9: cleanup_old_tasks on day d keeps, unchanged, exactly the rows last seen
\* on or after day d - 30, the row last seen on day d - 30 among them, and a
\* second cleanup on the same day deletes nothing.
C9_SweepKeepsRecent ==
    [][\A d \in Days :
          Returns(Main, "sweep", "", d) /\ CleanupOldTasks(Main, d, FALSE)
              => /\ \A r \in BagToSet(tbl) \cup BagToSet(tbl') :
                        CopiesIn(r, tbl') =
                            IF ParseDate(r.last_seen_date) >= d - RetentionDays
                            THEN CopiesIn(r, tbl) ELSE 0
                 /\ DeleteOld(tbl', CleanupDate(d)) = tbl']_vars

\* After the cleanup of Mon 2024-02-05 the row last seen on Sat 2024-01-06, thirty
\* days before, is there and the other key has no row.
C9_Witness ==
    /\ ret[Main] = Done("sweep", "", 77, "", Ok(0))
    /\ \E r \in Matching(tbl, KeyPool[1]) : r.last_seen_date = <<2024, 1, 6>>
    /\ Matching(tbl, KeyPool[2]) = {}

\* C10: a cleanup on day d deletes no record last seen on day d, and a
\* record_taiga_task of day d that found no record, during which a cleanup of
\* day d ran, leaves its new record in the table when it returns.
C10_SweepSparesInFlight ==
    [][/\ \A q \in Procs, d \in ConcDays :
             Returns(q, "sweep", "", d) /\ CleanupOldTasks(q, d, FALSE)
                 => \A r \in BagToSet(tbl) :
                        r.last_seen_date = FormatDate(d) => CopiesIn(r, tbl') = CopiesIn(r, tbl)
       /\ \A p \in Procs :
             ( /\ pc[p] = "selected" /\ sweptDuring[p] /\ RecordFinish(p)
               /\ ret'[p].path = "insert" /\ ret'[p].ok )
                 => BagIn(Row(call[p].key, call[p].today, call[p].today, 1), tbl')]_vars

\* A call of Mon 2024-02-05 returned from its INSERT after a cleanup of that day
\* ran in between, and its record is there.
C10_Witness ==
    \E p \in Procs :
        /\ pc[p] = "idle" /\ sweptDuring[p]
        /\ ret[p] = Done("record", KeyPool[1], 77, "insert", Ok(1))
        /\ BagIn(Row(KeyPool[1], <<2024, 2, 5>>, <<2024, 2, 5>>, 1), tbl)

\* C11: a record_taiga_task(k) with today = d that directly follows a successful
\* record_taiga_task(k) with the same today leaves the whole table, and so the
\* record of k, as the first call left it, and returns the count the first
\* call returned.
C11_RepeatIsIdempotent ==
    [][\A k \in Keys, d \in Days :
          ( /\ Returns(Main, "record", k, d)
            /\ ret[Main].op = "record" /\ ret[Main].ok
            /\ ret[Main].key = k /\ ret[Main].day = d
            /\ RecordTaigaTask(Main, k, d, FALSE, FALSE) )
              => /\ tbl' = tbl
                 /\ ret'[Main].ok
                 /\ ret'[Main].val = ret[Main].val]_vars

\* A record created on Sat 2024-01-06 was observed again on that day: the
\* second call took the UPDATE branch, counted no weekday and returned 1.
C11_Witness ==
    /\ follows[Main] = "repeat"
    /\ ret[Main] = Done("record", KeyPool[1], 47, "update", Ok(1))
    /\ BagIn(Row(KeyPool[1], <<2024, 1, 6>>, <<2024, 1, 6>>, 1), tbl)

\* C12: a record_taiga_task(k) whose today is later than the today of the last
\* successful record_taiga_task(k), the record of k not having been deleted in
\* between, returns at least the count that call returned.
C12_CountNeverDecreases ==
    [][\A k \in Keys, d \in Days :
          ( /\ Returns(Main, "record", k, d)
            /\ lastObs[k] # NoObs /\ lastObs[k].day < d
            /\ RecordTaigaTask(Main, k, d, FALSE, FALSE) )
              => /\ ret'[Main].ok
                 /\ ret'[Main].val >= lastObs[k].val]_vars

\* A record first seen on Mon 2024-01-01 was observed on a later day, the
\* Sat 2024-01-06, and the count rose to 5.
C12_Witness ==
    /\ follows[Main] = "later"
    /\ ret[Main] = Done("record", KeyPool[1], 47, "update", Ok(5))
    /\ lastObs[KeyPool[1]] = [day |-> 47, val |-> 5]
    /\ BagIn(Row(KeyPool[1], <<2024, 1, 1>>, <<2024, 1, 6>>, 5), tbl)

\* The days of the range [a, b] that fall on Monday to Friday (day 0 is a Monday).
Weekdays(a, b) == {n \in a..b : n % 7 \in 0..4}

\* C19: for dates d1 <= d2, calculate_work_days(d1, d2) returns (it ends, and
\* with no error) the number of Monday-to-Friday days of [d1, d2], or 1 when
\* there is none; when every day of the range is a weekday that is d2 - d1 + 1.
C19_CountsWeekdays ==
    calc.res # Pending /\ calc.start_day <= calc.end_day
        => LET n == Cardinality(Weekdays(calc.start_day, calc.end_day))
           IN  /\ calc.res = Ok(IF n >= 1 THEN n ELSE 1)
               /\ n = calc.end_day - calc.start_day + 1
                     => calc.res.val = calc.end_day - calc.start_day + 1

\* From Mon 2024-01-01 to Fri 2024-01-12, across a weekend: 10 days.
C19_Witness ==
    /\ calc.start_date = <<2024, 1, 1>> /\ calc.end_date = <<2024, 1, 12>>
    /\ calc.res = Ok(10)

\* C20: for dates d2 <= d1, calculate_work_days(d1, d2) returns exactly 1, on
\* a weekday and on a weekend day alike, and never an error.
C20_FloorOfOne ==
    calc.res # Pending /\ calc.end_day <= calc.start_day => calc.res = Ok(1)

\* From Fri 2024-01-12 back to Mon 2024-01-01: 1.
C20_Witness ==
    /\ calc.start_date = <<2024, 1, 12>> /\ calc.end_date = <<2024, 1, 1>>
    /\ calc.res = Ok(1)

\* The positions of those URLs in the batch, in order.
RECURSIVE RecognizedAt(_, _)
RecognizedAt(urls, i) ==
    IF i > Len(urls) THEN <<>>
    ELSE IF TaskKeyOf[urls[i]].kind = "some"
    THEN <<i>> \o RecognizedAt(urls, i + 1)
    ELSE RecognizedAt(urls, i + 1)

\* The count of the range from the TEXT date first to day d, as C19 states it.
RealCount(first, d) ==
    LET n == Cardinality(Weekdays(ParseDate(first), d))
    IN  IF n >= 1 THEN n ELSE 1

\* C16: process_taiga_urls returns Ok whatever the store does, with one
\* result per URL that has a task key, in the order of the URLs; the result of
\* a task whose store statement failed is 1, and every task whose statements
\* worked has its record seen today and its result is the count from the
\* record's first_seen_date to today.
C16_BatchContainsFailures ==
    batch # NoBatch =>
        LET at == RecognizedAt(batch.urls, 1)
        IN  /\ batch.ok
            /\ Len(batch.results) = Len(at)
            /\ \A i \in 1..Len(at) :
                  LET k == TaskKeyOf[batch.urls[at[i]]].key
                  IN  /\ batch.results[i][1] = k
                      /\ batch.faults[at[i]] # "none" => batch.results[i][2] = 1
                      /\ batch.faults[at[i]] = "none" =>
                            /\ Matching(tbl, k) # {}
                            /\ TheRow(tbl, k).last_seen_date = FormatDate(batch.day)
                            /\ batch.results[i][2] =
                                  RealCount(TheRow(tbl, k).first_seen_date, batch.day)

\* On Sat 2024-01-06 the UPDATE of the first task failed and the batch went
\* on: the first task is reported with 1 and its record is as it was, the
\* second with its count of 5.
C16_Witness ==
    /\ batch.urls = <<TaskUrl(1), TaskUrl(2)>> /\ batch.day = 47
    /\ batch.faults = <<"write", "none">>
    /\ batch.ok /\ batch.results = <<<<KeyPool[1], 1>>, <<KeyPool[2], 5>>>>
    /\ BagIn(Row(KeyPool[1], <<2024, 1, 1>>, <<2024, 1, 1>>, 1), tbl)
    /\ BagIn(Row(KeyPool[2], <<2024, 1, 1>>, <<2024, 1, 6>>, 5), tbl)

\* The positions of the lines of a report that start a PR block.
Heads(rep) ==
    SelectSeq([i \in 1..Len(rep) |-> i],
              LAMBDA i : Len(rep[i]) >= 8 /\ SubSeq(rep[i], 1, 8) = "### PR #")

\* The lines of the k-th PR block of a report: from its first line to the
\* line before the next block or the trailer.
Block(rep, k) ==
    LET heads == Heads(rep)
        end == IF k < Len(heads) THEN heads[k + 1] - 1
               ELSE (CHOOSE i \in 1..Len(rep) : rep[i] = "## AI guide") - 1
    IN  SubSeq(rep, heads[k], end)

\* line starts with prefix.
StartsWith(line, prefix) ==
    Len(line) >= Len(prefix) /\ SubSeq(line, 1, Len(prefix)) = prefix

\* The lines of a block that start with prefix.
LinesWith(block, prefix) == SelectSeq(block, LAMBDA line : StartsWith(line, prefix))

\* C14: a report made of n pull requests has exactly n PR blocks, and the
\* i-th block is numbered i and carries the title and the link of the i-th
\* pull request of the input, whatever tasks the pull requests name.
C14_OneBlockPerPr ==
    report # <<>> =>
        /\ Len(Heads(report)) = Len(response.items)
        /\ \A k \in 1..Len(response.items) :
               /\ Block(report, k)[1] = "### PR #" \o DigitChar[k + 1]
               /\ LinesWith(Block(report, k), "- title: ")
                      = <<"- title: " \o response.items[k].title>>
               /\ LinesWith(Block(report, k), "- link: ")
                      = <<"- link: " \o response.items[k].html_url>>

\* C14: two pull requests that name the same Taiga task, the later of the
\* pool first, got two blocks.
C14_Witness ==
    /\ response.items = <<PrPool[3], PrPool[1]>>
    /\ Len(Heads(report)) = 2
    /\ LinesWith(Block(report, 1), "- taiga: ") = <<"- taiga: Task #7">>
    /\ LinesWith(Block(report, 2), "- taiga: ") = <<"- taiga: Task #7">>
    /\ Block(report, 2)[2] = "- title: Refactor login"

\* C13: in a generated report every PR block that names a Taiga task shows
\* in square brackets the day count of a record of the task store, the
\* observation made for that block.
C13_BlocksCarryDayCount ==
    report # <<>> =>
        \A k \in 1..Len(Heads(report)) :
            LinesWith(Block(report, k), "- taiga: ") # <<>> =>
                \E r \in BagToSet(tbl) :
                    \E i \in 1..Len(Block(report, k)) :
                        Find(Block(report, k)[i],
                             "[" \o FormatNumber(r.total_days) \o "]") # -1

\* C15: the count in the header of a generated report is the number of its
\* PR blocks, and the report of an empty list is the header with count 0,
\* the fixed sentence and the trailer.
C15_HeaderCountsBlocks ==
    report # <<>> =>
        /\ report[4] = "- PRs created today: " \o DigitChar[Len(Heads(report)) + 1]
        /\ response.items = <<>> =>
               /\ Heads(report) = <<>>
               /\ SubSeq(report, 7, Len(report)) =
                      <<"No PR was created today, maybe no code work was done.", "",
                        "## AI guide", AiPrompt>>

\* C17: after a run of scheduled_handler on an answer of the holiday API
\* that has a first element, the report generation was called when its
\* status reads 0 or 2 and was not called for any other status, a number or
\* not.
C17_GateDecision ==
    ( /\ log # <<>>
      /\ signal.sent /\ signal.status_code = 200 /\ signal.json
      /\ signal.statuses # <<>> )
    => generated = (IF signal.statuses[1] \in {"0", "2"} THEN 1 ELSE 0)

\* s is one of the lines of the log.
Logged(s) == \E i \in 1..Len(log) : log[i] = s

\* C18: after a run of scheduled_handler in which the holiday API gave no
\* answer or a status code other than 200, the report generation was called
\* once and the log has the warning of the failed check and not the line of
\* a working day; the warning is in the log of no run whose check found a
\* working day.
C18_FailedCheckStillRuns ==
    /\ (log # <<>> /\ (~signal.sent \/ signal.status_code # 200)) =>
           /\ generated = 1
           /\ Logged("49 WARN working-day check failed: generating the report anyway")
           /\ ~Logged("35 working day: generating the report")
    /\ Logged("35 working day: generating the report") =>
           ~Logged("49 WARN working-day check failed: generating the report anyway")

\* C18: the holiday API answered 500, and the report of two pull requests
\* was generated and sent after the warning.
C18_Witness ==
    /\ signal.sent /\ signal.status_code = 500
    /\ generated = 1
    /\ Len(response.items) = 2
    /\ Logged("49 WARN working-day check failed: generating the report anyway")
    /\ Logged("175 report sent to Feishu")

\* C24: whenever a record_taiga_task returns Ok after a cleanup_old_tasks of
\* another invocation ran, on the same day, between its SELECT and its write,
\* the table then holds a row of its task_key whose last_seen_date is its
\* today.
C24_SuccessLeavesRecord ==
    [][\A p \in Procs :
          (pc[p] = "selected" /\ sweptDuring[p] /\ RecordFinish(p) /\ ret'[p].ok) =>
              \E r \in Matching(tbl', call[p].key) : r.last_seen_date = call[p].today]_vars

\* s has no "/".
NoSlash(s) == \A i \in 0..(Len(s) - 1) : CharAt(s, i) # "/"

\* s is one digit or more.
Digits(s) == s # "" /\ \A i \in 0..(Len(s) - 1) : CharAt(s, i) \in Digit

\* The <<slug, digits>> for which s is <slug>#<digits>, with a slug that is
\* not empty and has no "/" and with at least one digit.
KeyParts(s) ==
    {<<Slice(s, 0, i), Slice(s, i + 1, Len(s))>> : i \in
        {i \in 1..(Len(s) - 2) :
            /\ CharAt(s, i) = "#"
            /\ NoSlash(Slice(s, 0, i))
            /\ Digits(Slice(s, i + 1, Len(s)))}}

\* The <<slug, digits>> for which url is .../project/<slug>/task/<digits>.
TaskUrlParts(url) ==
    {<<Slice(url, ij[1] + 9, ij[2]), Slice(url, ij[2] + 6, Len(url))>> : ij \in
        {ij \in (0..Len(url)) \X (0..Len(url)) :
            /\ ij[1] + 9 < ij[2]
            /\ ij[2] + 6 < Len(url)
            /\ Slice(url, ij[1], ij[1] + 9) = "/project/"
            /\ Slice(url, ij[2], ij[2] + 6) = "/task/"
            /\ NoSlash(Slice(url, ij[1] + 9, ij[2]))
            /\ Digits(Slice(url, ij[2] + 6, Len(url)))}}

\* C21: extract_task_key_from_url returns on every string, and what it
\* returns is <slug>#<digits> for a string .../project/<slug>/task/<digits>
\* and None for every other string; a key has a slug that is not empty and
\* has no "/", and at least one digit.
C21_KeyOrNothing ==
    (text.fn = "key" /\ text.done) =>
        /\ text.out.key.kind # "panic"
        /\ text.out.key.kind = "some" => KeyParts(text.out.key.key) # {}
        /\ IF TaskUrlParts(text.url) # {}
           THEN \E part \in TaskUrlParts(text.url) :
                    text.out.key = [kind |-> "some", key |-> part[1] \o "#" \o part[2]]
           ELSE text.out.key.kind = "none"

\* The offset of the digits of the tracker URL .../project/<slug>/task/<digits>
\* that starts at offset i of s, or -1: the slug has no "/" and no white space.
TrackerTaskAt(s, i) ==
    IF ~(i + 30 <= Len(s) /\ Slice(s, i, i + 30) = "https://tree.taiga.io/project/") THEN -1
    ELSE LET slugs == {j \in (i + 31)..(Len(s) - 7) :
                         /\ Slice(s, j, j + 6) = "/task/"
                         /\ CharAt(s, j + 6) \in Digit
                         /\ \A x \in (i + 30)..(j - 1) :
                                CharAt(s, x) \notin Whitespace \cup {"/"}}
         IN  IF slugs = {} THEN -1 ELSE (CHOOSE j \in slugs : TRUE) + 6

\* The least of a set of numbers that is not empty.
Least(ns) == CHOOSE n \in ns : \A m \in ns : n <= m

\* The digits of s from offset i on.
DigitsFrom(s, i) ==
    Slice(s, i, Least({j \in i..Len(s) : j = Len(s) \/ CharAt(s, j) \notin Digit}))

\* The reference the priority rule gives for title and body: the URL of the
\* first tracker task URL with its task number, or the number of the first
\* #<digits>, or nothing.
Reference(title, body) ==
    LET s == title \o " " \o body
        urls == {i \in 0..(Len(s) - 1) : TrackerTaskAt(s, i) # -1}
        hashes == {i \in 0..(Len(s) - 2) : CharAt(s, i) = "#" /\ CharAt(s, i + 1) \in Digit}
    IN  IF urls # {}
        THEN LET at == TrackerTaskAt(s, Least(urls))
             IN  [kind |-> "url", number |-> DigitsFrom(s, at),
                  url |-> Slice(s, Least(urls), at) \o DigitsFrom(s, at),
                  slug |-> Slice(s, Least(urls) + 30, at - 6)]
        ELSE IF hashes # {}
        THEN [kind |-> "hash", number |-> DigitsFrom(s, Least(hashes) + 1),
              url |-> "", slug |-> ""]
        ELSE [kind |-> "none", number |-> "", url |-> "", slug |-> ""]

\* The block of the worker names the task by its number.
WorkerFollowsPriority ==
    LET ref == Reference(text.title, text.body)
    IN  text.out.info = IF ref.kind = "none" THEN "" ELSE "Task #" \o ref.number

\* The block of the command-line tool names the task by its URL or by its
\* #number.
CliFollowsPriority ==
    LET ref == Reference(text.title, text.body)
    IN  text.out.cli_info = IF ref.kind = "url" THEN ref.url
                            ELSE IF ref.kind = "hash" THEN "#" \o ref.number
                            ELSE ""

\* C22: the task a block names is that of the first tracker task URL of
\* title + " " + body when there is one, also after an earlier #<digits>,
\* else that of the first #<digits>, else none and the block has no task
\* line: in the report of the worker and in that of the command-line tool.
C22_UrlBeforeHash ==
    (text.fn = "pr both") => (WorkerFollowsPriority /\ CliFollowsPriority)

\* s after its last "/".
LastSegment(s) ==
    Slice(s, Least({i \in 0..Len(s) : \A j \in i..(Len(s) - 1) : CharAt(s, j) # "/"}), Len(s))

\* C23: the project code of a block is the slug of the first tracker task URL
\* of the pull request when it has one, else the last segment of its
\* repository URL as it is written, in the report of the worker and in that
\* of the command-line tool alike.
C23_ProjectCodeVerbatim ==
    (text.fn = "pr both") =>
        LET ref == Reference(text.title, text.body)
            code == IF ref.kind = "url" THEN ref.slug ELSE LastSegment(text.repository_url)
        IN  text.out.code = code /\ text.out.cli_code = code

====
